---------------------------- MODULE Spec2Model ----------------------------
(***************************************************************************)
(* Model of src/property/types/CloudSchedule.h: the Schedule value type    *)
(* (four unsigned 32-bit fields frm, to, len, msk and the evaluator        *)
(* isActive) and the CloudSchedule property that keeps a local and a cloud *)
(* Schedule.                                                               *)
(*                                                                         *)
(* An unsigned int of the program is 32 bits wide.  TLC's integers are     *)
(* signed 32-bit, so an unsigned int is modelled as the pair <<hi, lo>> of *)
(* its two 16-bit halves, and the program's operators on unsigned int      *)
(* (comparison, -, *, %, &, >>) are defined on such pairs, modulo 2^32.    *)
(***************************************************************************)
EXTENDS Integers, Sequences, FiniteSets, TLC

(***************************************************************************)
(* unsigned int                                                            *)
(***************************************************************************)
Half == 65536

U32(hi, lo) == <<hi, lo>>

FromInt(n) == <<n \div Half, n % Half>>

AsInt(x) == x[1] * Half + x[2]

Zero == U32(0, 0)

UINT_MAX == U32(65535, 65535)

Lt(a, b) == a[1] < b[1] \/ (a[1] = b[1] /\ a[2] < b[2])

Le(a, b) == ~Lt(b, a)

Max32(a, b) == IF Lt(a, b) THEN b ELSE a

Min32(a, b) == IF Lt(b, a) THEN b ELSE a

Add32(a, b) ==
  LET lo == a[2] + b[2]
      hi == a[1] + b[1] + (lo \div Half)
  IN  <<hi % Half, lo % Half>>

Sub32(a, b) ==
  LET lo == a[2] - b[2]
      hi == a[1] - b[1] - (IF lo < 0 THEN 1 ELSE 0)
  IN  <<hi % Half, lo % Half>>

\* the exact product of two 16-bit halves, as an unsigned int
Mul16(x, y) ==
  LET p1 == x * (y \div 256)
      p0 == x * (y % 256)
  IN  Add32(<<p1 \div 256, (p1 % 256) * 256>>, <<p0 \div Half, p0 % Half>>)

\* a * b of two unsigned ints: the low 32 bits of the product
Mul32(a, b) ==
  LET low   == Mul16(a[2], b[2])
      cross == (Mul16(a[1], b[2])[2] + Mul16(a[2], b[1])[2]) % Half
  IN  Add32(low, <<cross, 0>>)

\* the largest c * 2^k that is at most e, for 0 < c <= e
RECURSIVE Scale(_, _)
Scale(e, c) == IF Le(c, Sub32(e, c)) THEN Scale(e, Add32(c, c)) ELSE c

\* e % d of two unsigned ints, d nonzero
RECURSIVE Mod32(_, _)
Mod32(e, d) == IF Lt(e, d) THEN e ELSE Mod32(Sub32(e, Scale(e, d)), d)

RECURSIVE And16(_, _, _)
And16(x, y, bits) ==
  IF bits = 0 THEN 0
  ELSE (x % 2) * (y % 2) + 2 * And16(x \div 2, y \div 2, bits - 1)

And32(a, b) == <<And16(a[1], b[1], 16), And16(a[2], b[2], 16)>>

Shr32(a, n) ==
  IF n >= 16 THEN <<0, a[1] \div (2 ^ (n - 16))>>
  ELSE <<a[1] \div (2 ^ n), (a[2] \div (2 ^ n)) + (a[1] % (2 ^ n)) * (2 ^ (16 - n))>>

\* 1 << n for 0 <= n < 16
Shl1(n) == <<0, 2 ^ n>>


(***************************************************************************)
(* DEFINE                                                                  *)
(***************************************************************************)
SCHEDULE_UNIT_MASK == U32(49152, 0)      \* 0xC0000000

SCHEDULE_UNIT_SHIFT == 30

SCHEDULE_TYPE_MASK == U32(15360, 0)      \* 0x3C000000

SCHEDULE_TYPE_SHIFT == 26

SCHEDULE_MONTH_MASK == U32(0, 65280)     \* 0x0000FF00

SCHEDULE_MONTH_SHIFT == 8

SCHEDULE_REP_MASK == U32(1023, 65535)    \* 0x03FFFFFF

SCHEDULE_WEEK_MASK == U32(0, 255)        \* 0x000000FF

SCHEDULE_DAY_MASK == U32(0, 255)         \* 0x000000FF

SCHEDULE_ONE_SHOT == U32(65535, 65535)   \* 0xFFFFFFFF

\* the time units the deltas are multiplied with
SECONDS == 1

MINUTES == 60

HOURS == 3600

DAYS == 86400

(***************************************************************************)
(* ENUM                                                                    *)
(***************************************************************************)
Seconds == 0

Minutes == 1

Hours == 2

Days == 3

ScheduleUnit == {Seconds, Minutes, Hours, Days}

OneShot == 0

FixedDelta == 1

Weekly == 2

Monthly == 3

Yearly == 4

ScheduleType == {OneShot, FixedDelta, Weekly, Monthly, Yearly}

(***************************************************************************)
(* class Schedule                                                          *)
(***************************************************************************)
Schedule(s, e, d, m) == [frm |-> s, to |-> e, len |-> d, msk |-> m]

\* operator= copying three of the four fields
ScheduleAssign_threeFields(self, aSchedule) ==
  [self EXCEPT !.frm = aSchedule.frm, !.to = aSchedule.to, !.msk = aSchedule.msk]

\* Schedule::operator=, a field-wise copy into self
ScheduleAssign(self, aSchedule) ==
  [self EXCEPT !.frm = aSchedule.frm, !.to = aSchedule.to,
               !.len = aSchedule.len, !.msk = aSchedule.msk]

\* operator== comparing three of the four fields
ScheduleEq_threeFields(a, aSchedule) ==
  a.frm = aSchedule.frm /\ a.to = aSchedule.to /\ a.msk = aSchedule.msk

ScheduleEq(a, aSchedule) ==
  a.frm = aSchedule.frm /\ a.to = aSchedule.to /\ a.len = aSchedule.len /\ a.msk = aSchedule.msk

ScheduleNeq(a, aSchedule) == ~ScheduleEq(a, aSchedule)

getScheduleUnit(msk) == AsInt(Shr32(And32(msk, SCHEDULE_UNIT_MASK), SCHEDULE_UNIT_SHIFT))

getScheduleType(msk) == AsInt(Shr32(And32(msk, SCHEDULE_TYPE_MASK), SCHEDULE_TYPE_SHIFT))

getScheduleRepetition(msk) == And32(msk, SCHEDULE_REP_MASK)

getScheduleWeekMask(msk) == And32(msk, SCHEDULE_WEEK_MASK)

getScheduleDay(msk) == And32(msk, SCHEDULE_DAY_MASK)

getScheduleMonth(msk) == Shr32(And32(msk, SCHEDULE_MONTH_MASK), SCHEDULE_MONTH_SHIFT)

isScheduleOneShot(msk) == getScheduleType(msk) = OneShot

isScheduleFixed(msk) == getScheduleType(msk) = FixedDelta

isScheduleWeekly(msk) == getScheduleType(msk) = Weekly

isScheduleMonthly(msk) == getScheduleType(msk) = Monthly

isScheduleYearly(msk) == getScheduleType(msk) = Yearly

isScheduleInSeconds(msk) ==
  IF isScheduleFixed(msk) THEN getScheduleUnit(msk) = Seconds ELSE FALSE

isScheduleInMinutes(msk) ==
  IF isScheduleFixed(msk) THEN getScheduleUnit(msk) = Minutes ELSE FALSE

isScheduleInHours(msk) ==
  IF isScheduleFixed(msk) THEN getScheduleUnit(msk) = Hours ELSE FALSE

isScheduleInDays(msk) ==
  IF isScheduleFixed(msk) THEN getScheduleUnit(msk) = Days ELSE FALSE

\* gmtime of a time that is an unsigned int of seconds since 1970-01-01 (a
\* Thursday): the days since the epoch are time / 86400 = (time / 128) / 675,
\* and the civil date follows from the day number.
gmtime(time) ==
  LET days == (time[1] * 512 + time[2] \div 128) \div 675
      z    == days + 719468
      doe  == z % 146097
      yoe  == (doe - doe \div 1460 + doe \div 36524 - doe \div 146096) \div 365
      doy  == doe - (365 * yoe + yoe \div 4 - yoe \div 100)
      mp   == (5 * doy + 2) \div 153
  IN  [tm_wday |-> (days + 4) % 7,
       tm_mday |-> doy - (153 * mp + 2) \div 5 + 1,
       tm_mon  |-> (IF mp < 10 THEN mp + 3 ELSE mp - 9) - 1]

\* the day mask with Monday, not Sunday, as bit 0
getCurrentDayMask_mondayFirst(time) == Shl1((gmtime(time).tm_wday + 6) % 7)

getCurrentDayMask(time) == Shl1(gmtime(time).tm_wday)

getCurrentDay(time) == FromInt(gmtime(time).tm_mday)

getCurrentMonth(time) == FromInt(gmtime(time).tm_mon)

\* the period check with an inclusive end
checkSchedulePeriod_inclusive(now, frm, to) ==
  IF Le(frm, now) /\ (Le(now, to) \/ to = Zero) THEN TRUE ELSE FALSE

checkSchedulePeriod(now, frm, to) ==
  IF Le(frm, now) /\ (Lt(now, to) \/ to = Zero) THEN TRUE ELSE FALSE

\* the mask check accepting what matches no type
checkScheduleMask_defaultTrue(now, msk) ==
  IF isScheduleFixed(msk) \/ isScheduleOneShot(msk) THEN TRUE
  ELSE IF isScheduleWeekly(msk)
       THEN And32(getCurrentDayMask(now), getScheduleWeekMask(msk)) # Zero
  ELSE IF isScheduleMonthly(msk)
       THEN getCurrentDay(now) = getScheduleDay(msk)
  ELSE IF isScheduleYearly(msk)
       THEN getCurrentDay(now) = getScheduleDay(msk)
            /\ getCurrentMonth(now) = getScheduleMonth(msk)
  ELSE TRUE

checkScheduleMask(now, msk) ==
  IF isScheduleFixed(msk) \/ isScheduleOneShot(msk) THEN TRUE
  ELSE IF isScheduleWeekly(msk)
          /\ And32(getCurrentDayMask(now), getScheduleWeekMask(msk)) # Zero THEN TRUE
  ELSE IF isScheduleMonthly(msk)
          /\ getCurrentDay(now) = getScheduleDay(msk) THEN TRUE
  ELSE IF isScheduleYearly(msk)
          /\ getCurrentDay(now) = getScheduleDay(msk)
          /\ getCurrentMonth(now) = getScheduleMonth(msk) THEN TRUE
  ELSE FALSE

\* the delta with one day, not SCHEDULE_ONE_SHOT, as the last case
getScheduleDelta_daily(msk) ==
  IF isScheduleInSeconds(msk) THEN Mul32(FromInt(SECONDS), getScheduleRepetition(msk))
  ELSE IF isScheduleInMinutes(msk) THEN Mul32(FromInt(MINUTES), getScheduleRepetition(msk))
  ELSE IF isScheduleInHours(msk) THEN Mul32(FromInt(HOURS), getScheduleRepetition(msk))
  ELSE IF isScheduleInDays(msk) THEN Mul32(FromInt(DAYS), getScheduleRepetition(msk))
  ELSE FromInt(DAYS)

getScheduleDelta(msk) ==
  IF isScheduleInSeconds(msk) THEN Mul32(FromInt(SECONDS), getScheduleRepetition(msk))
  ELSE IF isScheduleInMinutes(msk) THEN Mul32(FromInt(MINUTES), getScheduleRepetition(msk))
  ELSE IF isScheduleInHours(msk) THEN Mul32(FromInt(HOURS), getScheduleRepetition(msk))
  ELSE IF isScheduleInDays(msk) THEN Mul32(FromInt(DAYS), getScheduleRepetition(msk))
  ELSE IF isScheduleWeekly(msk) \/ isScheduleMonthly(msk) \/ isScheduleYearly(msk)
       THEN FromInt(DAYS)
  ELSE SCHEDULE_ONE_SHOT

\* what the evaluation of x % 0 can do: the behaviour is undefined, a build
\* yields a value that compares either way with len, or traps
ModuloByZero == {"true", "false", "trap"}

\* isActive comparing with < where the code compares with <=
isActive_strict(s, now) ==
  IF checkSchedulePeriod(now, s.frm, s.to) THEN
    IF checkScheduleMask(now, s.msk) THEN
      LET delta == getScheduleDelta(s.msk) IN
        IF delta = Zero THEN ModuloByZero
        ELSE IF Lt(Mod32(Sub32(Max32(now, s.frm), Min32(now, s.frm)), delta), s.len)
             THEN {"true"}
        ELSE {"false"}
    ELSE {"false"}
  ELSE {"false"}

\* the outcomes of Schedule::isActive for the time now that getLocalTime() gave
isActive(s, now) ==
  IF checkSchedulePeriod(now, s.frm, s.to) THEN
    IF checkScheduleMask(now, s.msk) THEN
      LET delta == getScheduleDelta(s.msk) IN
        IF delta = Zero THEN ModuloByZero
        ELSE IF Le(Mod32(Sub32(Max32(now, s.frm), Min32(now, s.frm)), delta), s.len)
             THEN {"true"}
        ELSE {"false"}
    ELSE {"false"}
  ELSE {"false"}


(***************************************************************************)
(* The time source.  getLocalTime() returns the seconds of a clock that    *)
(* only moves forward; the clock's readings are the entries of TimeSeq, in *)
(* increasing order: every second from 0 to MaxNow, then 63104, then five  *)
(* seconds of each of the days 1..MaxDays, then 2^31 and the last two      *)
(* values of an unsigned int.                                              *)
(***************************************************************************)
MaxNow == 22

MaxDays == 7

DayOffsets == <<0, 2, 3, 7, 8>>

TimeSeq ==
  [i \in 1..(MaxNow + 1) |-> U32(0, i - 1)]
  \o <<FromInt(63104)>>
  \o [i \in 1..(5 * MaxDays) |->
        FromInt(((i - 1) \div 5 + 1) * 86400 + DayOffsets[((i - 1) % 5) + 1])]
  \o <<U32(32768, 0), U32(65535, 65534), UINT_MAX>>

(***************************************************************************)
(* class CloudSchedule                                                     *)
(*                                                                         *)
(* value and cloud_value are the two Schedule members; touched records     *)
(* that updateLocalTimestamp() ran.  tick is the position of the clock in  *)
(* TimeSeq.  result is what the last isActive() call returned; op is the   *)
(* last thing that happened (a member function called, with its argument   *)
(* or the time it read, or a tick of the clock); ctor is the Schedule the  *)
(* object was constructed with, and trail tells whether the calls so far are exactly: *)
(* none ("new"), one assignment ("assigned"), one assignment followed by   *)
(* one fromLocalToCloud() ("pushed"), or one assignment of a different     *)
(* Schedule followed by one fromCloudToLocal() ("discarded").              *)
(***************************************************************************)
VARIABLES value, cloud_value, touched, tick, result, op, ctor, trail

vars == <<value, cloud_value, touched, tick, result, op, ctor, trail>>

getLocalTime == TimeSeq[tick]

isDifferentFromCloud == ScheduleNeq(value, cloud_value)

\* CloudSchedule(frm, to, len, msk), constructed when the clock stands at k
CloudSchedule(d, k) ==
  /\ value = Schedule(d.frm, d.to, d.len, d.msk)
  /\ cloud_value = Schedule(d.frm, d.to, d.len, d.msk)
  /\ touched = FALSE
  /\ tick = k
  /\ result = "none"
  /\ op = [name |-> "CloudSchedule", arg |-> d]
  /\ ctor = d
  /\ trail = "new"

\* a call that trapped has ended the program
Running == result # "trap"

\* CloudSchedule::operator=(Schedule aSchedule)
Assign(aSchedule) ==
  /\ Running
  /\ value' = [value EXCEPT !.frm = aSchedule.frm, !.to = aSchedule.to,
                            !.len = aSchedule.len, !.msk = aSchedule.msk]
  /\ touched' = TRUE
  /\ op' = [name |-> "operator=", arg |-> aSchedule]
  /\ trail' = IF trail = "new" THEN "assigned" ELSE "any"
  /\ result' = "none"
  /\ UNCHANGED <<cloud_value, tick, ctor>>

fromCloudToLocal ==
  /\ Running
  /\ value' = ScheduleAssign(value, cloud_value)
  /\ op' = [name |-> "fromCloudToLocal"]
  /\ trail' = IF trail = "assigned" /\ isDifferentFromCloud THEN "discarded" ELSE "any"
  /\ result' = "none"
  /\ UNCHANGED <<cloud_value, touched, tick, ctor>>

fromLocalToCloud ==
  /\ Running
  /\ cloud_value' = ScheduleAssign(cloud_value, value)
  /\ op' = [name |-> "fromLocalToCloud"]
  /\ trail' = IF trail = "assigned" THEN "pushed" ELSE "any"
  /\ result' = "none"
  /\ UNCHANGED <<value, touched, tick, ctor>>

\* the four setAttribute calls store the received values, in this order
setAttributesFromCloud(received) ==
  /\ Running
  /\ cloud_value' = [cloud_value EXCEPT !.frm = received.frm, !.to = received.to,
                                        !.len = received.len, !.msk = received.msk]
  /\ op' = [name |-> "setAttributesFromCloud", arg |-> received]
  /\ trail' = "any"
  /\ result' = "none"
  /\ UNCHANGED <<value, touched, tick, ctor>>

\* CloudSchedule::isActive: _value.isActive() at the time the clock shows
CloudIsActive ==
  /\ Running
  /\ result' \in isActive(value, getLocalTime)
  /\ op' = [name |-> "isActive", now |-> getLocalTime]
  /\ UNCHANGED <<value, cloud_value, touched, tick, ctor, trail>>

\* the clock moves on to its next reading
Tick ==
  /\ Running
  /\ tick < Len(TimeSeq)
  /\ tick' = tick + 1
  /\ op' = [name |-> "tick"]
  /\ result' = "none"
  /\ UNCHANGED <<value, cloud_value, touched, ctor, trail>>

(***************************************************************************)
(* The values the model draws its inputs from.                             *)
(***************************************************************************)
MkMask(unit, type, low) == U32(unit * 16384 + type * 1024 + low \div Half, low % Half)

EvalMasks ==
  {MkMask(Seconds, OneShot, 0), MkMask(Days, OneShot, 7)}
  \cup {MkMask(u, FixedDelta, 0) : u \in ScheduleUnit}
  \cup {MkMask(Seconds, FixedDelta, 10), MkMask(Minutes, FixedDelta, 1440),
        MkMask(Hours, FixedDelta, 1193047), MkMask(Days, FixedDelta, 1),
        MkMask(Days, FixedDelta, 49711), MkMask(Days, FixedDelta, 33554432)}
  \cup {MkMask(Seconds, Weekly, w) : w \in {0, 2, 16, 127, 128}}
  \cup {MkMask(Seconds, Monthly, 1), MkMask(Seconds, Monthly, 5)}
  \cup {MkMask(Seconds, Yearly, 1), MkMask(Seconds, Yearly, 256 + 1)}
  \cup {MkMask(Seconds, 5, 0), MkMask(Days, 15, 10)}

EvalSchedules ==
  {Schedule(f, t, l, m) :
     f \in {Zero, U32(0, 5), FromInt(345600)},
     t \in {Zero, U32(0, 3), FromInt(7 * 86400)},
     l \in {Zero, U32(0, 2), UINT_MAX},
     m \in EvalMasks}

TrackerBase == Schedule(Zero, Zero, U32(0, 2), MkMask(Seconds, FixedDelta, 10))

TrackerSchedules ==
  {TrackerBase,
   [TrackerBase EXCEPT !.frm = U32(0, 5)],
   [TrackerBase EXCEPT !.to = U32(0, 15)],
   [TrackerBase EXCEPT !.len = Zero],
   [TrackerBase EXCEPT !.msk = MkMask(Seconds, OneShot, 0)],
   Schedule(Zero, Zero, Zero, Zero)}

TrackerTicks == {1, 4, 13, 16}

(***************************************************************************)
(* Specifications.  Spec is the CloudSchedule object under every sequence  *)
(* of calls, at a few readings of the clock; EvalSpec constructs every     *)
(* Schedule of EvalSchedules at every reading of the clock and applies     *)
(* isActive to it there and at the later readings.                         *)
(***************************************************************************)
Init == \E d \in TrackerSchedules, k \in TrackerTicks : CloudSchedule(d, k)

Next ==
  \/ \E e \in TrackerSchedules : Assign(e)
  \/ fromCloudToLocal
  \/ fromLocalToCloud
  \/ \E r \in TrackerSchedules : setAttributesFromCloud(r)
  \/ CloudIsActive

Spec == Init /\ [][Next]_vars

EvalInit == \E d \in EvalSchedules, k \in 1..Len(TimeSeq) : CloudSchedule(d, k)

EvalNext == CloudIsActive \/ Tick

EvalSpec == EvalInit /\ [][EvalNext]_vars


(***************************************************************************)
(* What the properties below speak about.                                  *)
(***************************************************************************)
\* the last thing that happened is an isActive() call; result is its outcome
Called == op.name = "isActive"

\* the time that call read is inside the window [frm, to), or [frm, oo) if to = 0
InWindow ==
  /\ Le(value.frm, getLocalTime)
  /\ (value.to = Zero \/ Lt(getLocalTime, value.to))

\* now - frm, for a now that is not before frm
Elapsed == Sub32(getLocalTime, value.frm)

\* the recurrence rule of the mask m matches the time t
Matches(t, m) ==
  LET type == getScheduleType(m)
      cal  == gmtime(t)
  IN  \/ type \in {OneShot, FixedDelta}
      \/ type = Weekly /\ (m[2] \div (2 ^ cal.tm_wday)) % 2 = 1
      \/ type = Monthly /\ cal.tm_mday = m[2] % 256
      \/ type = Yearly /\ cal.tm_mday = m[2] % 256 /\ cal.tm_mon = m[2] \div 256

UnitSeconds(unit) ==
  CASE unit = Seconds -> 1
    [] unit = Minutes -> 60
    [] unit = Hours   -> 3600
    [] unit = Days    -> 86400

\* the product repetitionCount(m) x unitSeconds(unit(m)) as an integer, not
\* reduced modulo 2^32: its three 16-bit digits <<top, hi, lo>>
ExactDelta(m) ==
  LET rep   == <<(m[1] % 1024), m[2]>>
      unit  == FromInt(UnitSeconds(getScheduleUnit(m)))
      low   == Mul16(rep[2], unit[2])
      mid   == low[1] + rep[1] * unit[2] + rep[2] * unit[1]
  IN  <<mid \div Half + rep[1] * unit[1], mid % Half, low[2]>>

\* (now - frm) mod the exact product; a product of 2^32 or more exceeds
\* every elapsed time
ElapsedModExactDelta ==
  LET D == ExactDelta(value.msk)
  IN  IF D[1] = 0 THEN Mod32(Elapsed, <<D[2], D[3]>>) ELSE Elapsed

(***************************************************************************)
(* Properties of isActive, checked under EvalSpec.                         *)
(***************************************************************************)

\* C1: a FixedDelta schedule with repetition count 0 is inactive at every
\* time inside its window: isActive returns false there.
C1_ZeroRepetitionInactive ==
  (Called /\ isScheduleFixed(value.msk) /\ (value.msk[1] % 1024 = 0) /\ value.msk[2] = 0
     /\ InWindow)
  => result = "false"

\* C2: isActive returns true only at a time inside the window; so a schedule
\* with to # 0 and frm > to is inactive at every time, isActive at the time to
\* is false when to # 0, and no time before frm is active.
C2_ActiveOnlyInsideWindow ==
  Called =>
    /\ result = "true" => InWindow
    /\ (value.to # Zero /\ Lt(value.to, value.frm)) => result = "false"
    /\ (value.to # Zero /\ getLocalTime = value.to) => result = "false"
    /\ Lt(getLocalTime, value.frm) => result = "false"

C2_Witness ==
  /\ Called
  /\ result = "true"
  /\ value.to # Zero
  /\ Add32(getLocalTime, U32(0, 1)) = value.to

\* C3: a FixedDelta schedule whose product D = repetitionCount x unitSeconds
\* is positive is active inside its window exactly when (now - frm) mod D <=
\* len; the schedule Seconds, repetition 10, frm 0, to 0, len 2 is active at
\* 0,1,2,10,11,12,20,21,22 and inactive at 3..9 and 13..19.  (Stated for the
\* masks whose 32-bit delta is not 0, where isActive has one outcome.)
C3_FixedDeltaExactModulus ==
  /\ (Called /\ isScheduleFixed(value.msk) /\ ExactDelta(value.msk) # <<0, 0, 0>>
        /\ getScheduleDelta(value.msk) # Zero /\ InWindow)
     => (result = "true" <=> Le(ElapsedModExactDelta, value.len))
  /\ (Called /\ value = Schedule(Zero, Zero, U32(0, 2), MkMask(Seconds, FixedDelta, 10))
        /\ getLocalTime[1] = 0 /\ getLocalTime[2] <= 22)
     => (result = "true" <=> getLocalTime[2] \in {0, 1, 2, 10, 11, 12, 20, 21, 22})

\* C5 as stated: a OneShot schedule is active inside its window exactly when
\* now - frm <= len, for every 32-bit now, frm and len.
C5_OneShotPlainComparison ==
  (Called /\ isScheduleOneShot(value.msk) /\ InWindow)
  => (result = "true" <=> Le(Elapsed, value.len))

\* C5 as amended: a OneShot schedule is active inside its window exactly when
\* now - frm <= len or now - frm = 0xFFFFFFFF (the one elapsed time that the
\* sentinel delta reduces to 0).
C5_OneShotModuloSentinel ==
  (Called /\ isScheduleOneShot(value.msk) /\ InWindow)
  => (result = "true" <=> (Le(Elapsed, value.len) \/ Elapsed = UINT_MAX))

C5_Witness ==
  /\ Called
  /\ isScheduleOneShot(value.msk)
  /\ InWindow
  /\ Elapsed = UINT_MAX
  /\ value.len # UINT_MAX
  /\ result = "true"

\* C6 as stated: for every schedule with frm < to, whatever its mask and len,
\* isActive at the time frm is true and isActive at the time to is false.
\* (Stated for the masks whose delta is not 0, where isActive has one outcome.)
C6_WindowBoundsAnyMask ==
  (Called /\ Lt(value.frm, value.to) /\ getScheduleDelta(value.msk) # Zero) =>
    /\ getLocalTime = value.frm => result = "true"
    /\ getLocalTime = value.to => result = "false"

\* C6 as amended: for every schedule with frm < to and every len, isActive at
\* the time to is false; isActive at the time frm is true when the recurrence
\* rule of the mask matches frm and the delta is not 0, and false when the
\* rule does not match frm.
C6_WindowBounds ==
  (Called /\ Lt(value.frm, value.to)) =>
    /\ getLocalTime = value.to => result = "false"
    /\ (getLocalTime = value.frm /\ Matches(value.frm, value.msk)
          /\ getScheduleDelta(value.msk) # Zero) => result = "true"
    /\ (getLocalTime = value.frm /\ ~Matches(value.frm, value.msk)) => result = "false"

C6_Witness ==
  /\ Called
  /\ Lt(value.frm, value.to)
  /\ getLocalTime = value.frm
  /\ value.len = Zero
  /\ isScheduleWeekly(value.msk)
  /\ result = "true"

\* C8: a Weekly schedule is active exactly when now is inside the window, the
\* bit of now's weekday (bit 0 = Sunday) is set in the low 8 bits of the mask,
\* and (now - frm) mod 86400 <= len; a mask with only Monday's bit is never
\* active on another weekday.
C8_WeeklyActive ==
  (Called /\ isScheduleWeekly(value.msk)) =>
    /\ result = "true" <=>
         (/\ InWindow
          /\ (value.msk[2] \div (2 ^ gmtime(getLocalTime).tm_wday)) % 2 = 1
          /\ Le(Mod32(Elapsed, FromInt(86400)), value.len))
    /\ (value.msk[2] % 256 = 2 /\ gmtime(getLocalTime).tm_wday # 1) => result = "false"

C8_Witness ==
  /\ Called
  /\ isScheduleWeekly(value.msk)
  /\ value.msk[2] % 256 = 2
  /\ gmtime(getLocalTime).tm_wday = 1
  /\ value.len # UINT_MAX
  /\ result = "true"

\* C9 as stated: the type field of every mask decodes to one of the five
\* schedule types and the unit field to one of the four units.
C9_TypeAlwaysAVariant ==
  /\ getScheduleType(value.msk) \in ScheduleType
  /\ getScheduleUnit(value.msk) \in ScheduleUnit

\* C9 as amended: the unit field of every mask decodes to one of the four
\* units; the type field decodes to a number in 0..15, of which 0..4 are the
\* five schedule types; a mask whose type field is 5..15 gets the delta
\* 0xFFFFFFFF and is inactive at every time.
C9_TypeFieldRange ==
  /\ getScheduleUnit(value.msk) \in ScheduleUnit
  /\ getScheduleType(value.msk) \in 0..15
  /\ getScheduleType(value.msk) \notin ScheduleType =>
       /\ getScheduleDelta(value.msk) = SCHEDULE_ONE_SHOT
       /\ Called => result = "false"

C9_Witness ==
  /\ Called
  /\ getScheduleType(value.msk) \notin ScheduleType
  /\ InWindow
  /\ Elapsed = Zero
  /\ result = "false"

\* C10: for every FixedDelta mask the delta that isActive takes as modulus is
\* the exact product repetitionCount x unitSeconds (the multiplication does
\* not wrap modulo 2^32), so the delta is 0 only when repetitionCount is 0.
C10_DeltaIsExactProduct ==
  (Called /\ isScheduleFixed(value.msk) /\ InWindow) =>
    LET delta == getScheduleDelta(value.msk)
    IN  /\ ExactDelta(value.msk) = <<0, delta[1], delta[2]>>
        /\ delta = Zero => getScheduleRepetition(value.msk) = Zero

(***************************************************************************)
(* Properties of the CloudSchedule object, checked under Spec.             *)
(***************************************************************************)

\* C4: isDifferentFromCloud() is the field-wise inequality of the local and
\* the cloud Schedule after every sequence of calls; it is false on a newly
\* constructed object, after one assignment of e it is true exactly when e
\* differs from the constructor's Schedule in one of the four fields, and
\* after a following fromLocalToCloud() it is false again.
C4_DivergenceIsDerived ==
  /\ isDifferentFromCloud <=> value # cloud_value
  /\ trail = "new" => ~isDifferentFromCloud
  /\ (trail = "assigned" /\ op.name = "operator=") =>
       (isDifferentFromCloud <=>
          (\/ op.arg.frm # ctor.frm
           \/ op.arg.to # ctor.to
           \/ op.arg.len # ctor.len
           \/ op.arg.msk # ctor.msk))
  /\ trail = "pushed" => ~isDifferentFromCloud

C4_Witness ==
  /\ trail = "pushed"
  /\ value # ctor
  /\ ~isDifferentFromCloud

\* C7: fromCloudToLocal() makes the local Schedule equal to the cloud one and
\* leaves the cloud one alone; fromLocalToCloud() makes the cloud Schedule
\* equal to the local one and leaves the local one alone; the assignment
\* changes only the local Schedule and setAttributesFromCloud() only the
\* cloud one; after either copy isDifferentFromCloud() is false, and an
\* assigned Schedule that was not yet copied to the cloud is lost to
\* fromCloudToLocal().
C7_FrameEffects ==
  [][ /\ op'.name = "fromCloudToLocal" =>
           (value' = cloud_value /\ cloud_value' = cloud_value /\ ~isDifferentFromCloud')
      /\ op'.name = "fromLocalToCloud" =>
           (cloud_value' = value /\ value' = value /\ ~isDifferentFromCloud')
      /\ op'.name = "operator=" =>
           (value' = op'.arg /\ cloud_value' = cloud_value)
      /\ op'.name = "setAttributesFromCloud" =>
           (cloud_value' = op'.arg /\ value' = value)
      /\ trail' = "discarded" => value' = ctor ]_vars

\* an assigned value that was not copied to the cloud is gone after
\* fromCloudToLocal()
C7_Witness ==
  /\ op.name = "fromCloudToLocal"
  /\ trail = "discarded"
  /\ touched
  /\ value = ctor

=============================================================================
